---- MODULE Spec2Model ----
(***************************************************************************)
(* ScalarMetricTracker of orb_models/utils.py: a running-average           *)
(* accumulator for named scalar metrics (sums and counts per key).         *)
(*                                                                         *)
(* A Python value handed to the tracker is either a plain number or a      *)
(* torch tensor.  Both are records                                         *)
(*     [kind, shape, elems]                                                *)
(* with kind "float" (a plain Python number, shape <<>>, one element) or   *)
(* "tensor" (shape = the tuple of dimensions, elems = the flattened data). *)
(* An element is [nan, val]: NaN, or the number val.  Numbers are small    *)
(* integers, which floating point represents and adds exactly; a quotient  *)
(* is kept as a reduced fraction.                                          *)
(***************************************************************************)
EXTENDS Integers, Sequences, FiniteSets, TLC

VARIABLES
    sums,      \* self.sums: key -> stored value (a float or a tensor)
    order,     \* the keys of self.sums in the order of their insertion
    counts,    \* self.counts: key -> number of accumulated values
    call,      \* the call being made: its name, argument, exception and return value
    nupdates,  \* update calls made since construction
    supplied,  \* history: totals of the values supplied while only scalar numbers were
    twin       \* a second tracker, constructed when the first one was last reset

vars == <<sums, order, counts, call, nupdates, supplied, twin>>

\* ---------------------------------------------------------------- bounds
MaxUpdates == 2

\* ---------------------------------------------------------------- values
Keys == {"loss", "acc"}

NaN == [nan |-> TRUE, val |-> 0]
Num(n) == [nan |-> FALSE, val |-> n]

Float(x) == [kind |-> "float", shape |-> <<>>, elems |-> <<x>>]
Tensor(s, e) == [kind |-> "tensor", shape |-> s, elems |-> e]

Zero == Float(Num(0))

RECURSIVE Product(_)
Product(s) == IF s = <<>> THEN 1 ELSE Head(s) * Product(Tail(s))

isinstance_Tensor(v) == v.kind = "tensor"
nelement(v) == Product(v.shape)
isnan_any(v) == \E i \in 1..Len(v.elems) : v.elems[i].nan


\* ------------------------------------------------------- float arithmetic
FAdd(a, b) == IF a.nan \/ b.nan THEN NaN ELSE Num(a.val + b.val)

RECURSIVE GCD(_, _)
GCD(a, b) == IF b = 0 THEN a ELSE GCD(b, a % b)

Quot(p, q) == [nan |-> FALSE, num |-> p \div GCD(p, q), den |-> q \div GCD(p, q)]
QNaN == [nan |-> TRUE, num |-> 0, den |-> 1]

\* x / n for a Python float x and an int n > 0
TrueDiv(x, n) == IF x.nan THEN QNaN ELSE Quot(x.val, n)

\* ------------------------------------------------------------ mappings
EmptyMap == [k \in {} |-> Zero]
Put(f, k, v) == [j \in (DOMAIN f) \cup {k} |-> IF j = k THEN v ELSE f[j]]

\* defaultdict.__getitem__: the default when the key is missing
GetDefault(f, k, d) == IF k \in DOMAIN f THEN f[k] ELSE d

\* ------------------------------------------------------- tensor addition
Pad(s, n) == [i \in 1..n |-> IF i <= n - Len(s) THEN 1 ELSE s[i - (n - Len(s))]]
Max(a, b) == IF a >= b THEN a ELSE b

\* torch broadcasting of two shapes (right-aligned; a dimension of 1 stretches):
\* [ok, shape]; two sizes that differ and are both not 1 cannot be broadcast
BroadcastShape(s1, s2) ==
    LET n == Max(Len(s1), Len(s2))
        a == Pad(s1, n)
        b == Pad(s2, n)
    IN  [ok |-> \A i \in 1..n : a[i] = b[i] \/ a[i] = 1 \/ b[i] = 1,
         shape |-> [i \in 1..n |-> IF a[i] = 1 THEN b[i] ELSE a[i]]]

\* the number of elements one step along dimension d of shape s spans
RECURSIVE Stride(_, _)
Stride(s, d) == IF d >= Len(s) THEN 1 ELSE s[d + 1] * Stride(s, d + 1)

\* the (0-based) flat index in a tensor of shape b, b padded to the length of s, of
\* the element that broadcasting puts at flat index j of shape s; dimensions d..1
RECURSIVE BroadcastIndex(_, _, _, _)
BroadcastIndex(j, s, b, d) ==
    IF d = 0 THEN 0
    ELSE (IF b[d] = 1 THEN 0 ELSE (j % s[d]) * Stride(b, d))
         + BroadcastIndex(j \div s[d], s, b, d - 1)

\* e + x for a tensor's elements e and one number x
AddElems(e, x) == [i \in 1..Len(e) |-> FAdd(e[i], x)]

\* the elements of a tensor of shape s after adding tensor x, broadcast to s, in place
AddTensor(s, e, x) ==
    [i \in 1..Len(e) |->
        FAdd(e[i], x.elems[1 + BroadcastIndex(i - 1, s, Pad(x.shape, Len(s)), Len(s))])]

\* mutant of IAdd: `old = x` written for `old += x`
IAdd_assign(old, x) == [raised |-> "none", val |-> x]

\* `old += x` as Python evaluates it: [raised, val].
\*   float += float   -> a float
\*   float += tensor  -> float has no __iadd__; Tensor.__radd__ builds a new tensor
\*   tensor += x      -> Tensor.__iadd__ adds in place: the broadcast shape must be
\*                       the shape of old, else RuntimeError and old is unchanged
IAdd(old, x) ==
    IF ~isinstance_Tensor(old)
    THEN IF ~isinstance_Tensor(x)
         THEN [raised |-> "none", val |-> Float(FAdd(old.elems[1], x.elems[1]))]
         ELSE [raised |-> "none", val |-> Tensor(x.shape, AddElems(x.elems, old.elems[1]))]
    ELSE IF ~isinstance_Tensor(x)
         THEN [raised |-> "none", val |-> Tensor(old.shape, AddElems(old.elems, x.elems[1]))]
         ELSE LET b == BroadcastShape(old.shape, x.shape)
              IN  IF ~b.ok \/ b.shape # old.shape
                  THEN [raised |-> "RuntimeError", val |-> old]
                  ELSE [raised |-> "none",
                        val |-> Tensor(old.shape, AddTensor(old.shape, old.elems, x))]

\* ------------------------------------------------------------- helpers
\* x.detach(): the same data outside the autograd graph (gradient tracking is not
\* an attribute of the modelled tensors); a plain number is returned as it is
ensure_detached(x) == IF isinstance_Tensor(x) THEN Tensor(x.shape, x.elems) ELSE x

\* x.cpu().item(): the single element of a tensor as a Python float, [raised, val];
\* item() raises unless the tensor has exactly one element
to_item(x) ==
    IF ~isinstance_Tensor(x) THEN [raised |-> "none", val |-> x]
    ELSE IF nelement(x) # 1 THEN [raised |-> "RuntimeError", val |-> Zero]
    ELSE [raised |-> "none", val |-> Float(x.elems[1])]

\* ------------------------------------------------- ScalarMetricTracker
\* A tracker object is [sums, order, counts], order being the keys of sums as the
\* dict holds them; an attribute-less object before __init__.
Blank == [sums |-> EmptyMap, order |-> <<>>, counts |-> EmptyMap]

\* mutants of reset: one of the two mappings is not replaced
reset_keeps_sums(t) == [sums |-> t.sums, order |-> t.order, counts |-> EmptyMap]
reset_keeps_counts(t) == [sums |-> EmptyMap, order |-> <<>>, counts |-> t.counts]

\* reset(): two new, empty defaultdicts
reset(t) == [sums |-> EmptyMap, order |-> <<>>, counts |-> EmptyMap]

\* __init__(): self.reset()
new == reset(Blank)

\* mutant of skip_non_scalar: the element count is compared with the wrong number
skip_non_scalar_over_3(v) == isinstance_Tensor(v) /\ nelement(v) > 3

\* mutant of skip_nan: the test is missing
skip_nan_missing(v) == FALSE

\* the first test of the loop body: only track scalar metrics
skip_non_scalar(v) == isinstance_Tensor(v) /\ nelement(v) > 1

\* the second test of the loop body
skip_nan(v) == isinstance_Tensor(v) /\ isnan_any(v)

\* self.counts[k] += 1
count_up(c, k) == Put(c, k, GetDefault(c, k, 0) + 1)

\* a dict's key order after an assignment to key k
Inserted(o, k) == IF \E i \in 1..Len(o) : o[i] = k THEN o ELSE Append(o, k)

Outcome(t, raised) ==
    [sums |-> t.sums, order |-> t.order, counts |-> t.counts, raised |-> raised]

\* One pass of the loop body of update for the entry (k, v): [sums, order, counts,
\* raised].  self.sums[k] reads the defaultdict first (a missing key is inserted as
\* 0.0), so the key stays in sums when the addition raises.
update_entry(t, k, v) ==
    IF skip_non_scalar(v) THEN Outcome(t, "none")
    ELSE IF skip_nan(v) THEN Outcome(t, "none")
    ELSE LET old == GetDefault(t.sums, k, Zero)
             r == IAdd(old, ensure_detached(v))
         IN  IF r.raised # "none"
             THEN [sums |-> Put(t.sums, k, old), order |-> Inserted(t.order, k),
                   counts |-> t.counts, raised |-> r.raised]
             ELSE [sums |-> Put(t.sums, k, r.val), order |-> Inserted(t.order, k),
                   counts |-> count_up(t.counts, k), raised |-> "none"]

\* mutant of update_from: `break` written for `continue`
RECURSIVE update_from_break(_, _, _)
update_from_break(t, metrics, i) ==
    IF i > Len(metrics) THEN Outcome(t, "none")
    ELSE IF skip_non_scalar(metrics[i].v) \/ skip_nan(metrics[i].v)
    THEN Outcome(t, "none")
    ELSE LET r == update_entry(t, metrics[i].k, metrics[i].v)
         IN  IF r.raised # "none" THEN r
             ELSE update_from_break(r, metrics, i + 1)

\* The loop of update over metrics.items(), from entry i on; an exception ends it.
RECURSIVE update_from(_, _, _)
update_from(t, metrics, i) ==
    IF i > Len(metrics) THEN Outcome(t, "none")
    ELSE LET r == update_entry(t, metrics[i].k, metrics[i].v)
         IN  IF r.raised # "none" THEN r
             ELSE update_from(r, metrics, i + 1)

update(t, metrics) == update_from(t, metrics, 1)

\* The dict comprehension of get_metrics from the i-th key of sums on, ret being the
\* mapping built so far: [sums, order, counts, raised, ret].  to_item(v) is evaluated
\* first; self.counts is a defaultdict, so reading a missing key inserts 0, and the
\* division by it raises ZeroDivisionError.  An exception ends the iteration and
\* nothing is returned.
RECURSIVE get_metrics_from(_, _, _)
get_metrics_from(t, i, ret) ==
    IF i > Len(t.order)
    THEN [sums |-> t.sums, order |-> t.order, counts |-> t.counts,
          raised |-> "none", ret |-> ret]
    ELSE LET k == t.order[i]
             item == to_item(t.sums[k])
             read == Put(t.counts, k, GetDefault(t.counts, k, 0))
         IN  IF item.raised # "none"
             THEN [sums |-> t.sums, order |-> t.order, counts |-> t.counts,
                   raised |-> item.raised, ret |-> EmptyMap]
             ELSE IF read[k] = 0
             THEN [sums |-> t.sums, order |-> t.order, counts |-> read,
                   raised |-> "ZeroDivisionError", ret |-> EmptyMap]
             ELSE get_metrics_from([sums |-> t.sums, order |-> t.order, counts |-> read],
                                   i + 1, Put(ret, k, TrueDiv(item.val.elems[1], read[k])))

\* get_metrics(): {k: to_item(v) / self.counts[k] for k, v in self.sums.items()}
get_metrics(t) == get_metrics_from(t, 1, EmptyMap)

\* ------------------------------------------------------------- inputs
\* plain numbers 2.0 and 4.0 and NaN; tensors hold 2.0 or NaN
Nums == {2, 4}
Elems == {Num(n) : n \in Nums} \cup {NaN}

\* the tensor shapes supplied: a 0-dim tensor, vectors of one, three and no elements,
\* and two matrices without elements whose shapes do not broadcast
Shapes == {<<>>, <<1>>, <<3>>, <<0>>, <<2, 0>>, <<3, 0>>}

Values ==
    {Float(x) : x \in Elems}
    \cup {Tensor(s, <<x>>) : s \in {sh \in Shapes : Product(sh) = 1}, x \in {Num(2), NaN}}
    \cup {Tensor(s, e) : s \in {sh \in Shapes : Product(sh) = 3},
                        e \in {<<Num(1), Num(2), Num(3)>>, <<Num(1), NaN, Num(3)>>}}
    \cup {Tensor(s, <<>>) : s \in {sh \in Shapes : Product(sh) = 0}}

Entry(k, v) == [k |-> k, v |-> v]

\* the mappings passed to update: entries in insertion order, keys distinct
Metrics ==
    {<<>>}
    \cup {<<Entry(k, v)>> : k \in Keys, v \in Values}
    \cup {<<Entry(k1, v1), Entry(k2, v2)>> :
             <<k1, k2>> \in {p \in Keys \X Keys : p[1] # p[2]}, v1 \in Values, v2 \in Values}

\* ------------------------------------------------------------- history
\* between two calls: the caller holds no argument and no result
NoCall == [op |-> "none", metrics |-> <<>>, raised |-> "none", ret |-> EmptyMap]

\* a scalar number: a plain number or a 0-dim tensor, and not NaN
IsScalarNumber(v) == (v.kind = "float" \/ v.shape = <<>>) /\ v.elems # <<NaN>>

NoHistory == [ok |-> TRUE, total |-> EmptyMap, n |-> EmptyMap]
Forgotten == [ok |-> FALSE, total |-> EmptyMap, n |-> EmptyMap]

RECURSIVE Record(_, _, _)
Record(h, metrics, i) ==
    IF i > Len(metrics) THEN h
    ELSE LET k == metrics[i].k
             v == metrics[i].v
         IN  IF ~h.ok \/ ~IsScalarNumber(v) THEN Forgotten
             ELSE Record([ok |-> TRUE,
                          total |-> Put(h.total, k, GetDefault(h.total, k, 0) + v.elems[1].val),
                          n |-> Put(h.n, k, GetDefault(h.n, k, 0) + 1)],
                         metrics, i + 1)

\* discarded: whether that reset found accumulated sums to discard
NoTwin ==
    [exists |-> FALSE, discarded |-> FALSE,
     sums |-> EmptyMap, order |-> <<>>, counts |-> EmptyMap]

\* ------------------------------------------------------------- actions
Init ==
    /\ sums = new.sums
    /\ order = new.order
    /\ counts = new.counts
    /\ call = NoCall
    /\ nupdates = 0
    /\ supplied = NoHistory
    /\ twin = NoTwin

Self == [sums |-> sums, order |-> order, counts |-> counts]

Twin == [sums |-> twin.sums, order |-> twin.order, counts |-> twin.counts]

Reset ==
    /\ call = NoCall
    /\ sums' = reset(Self).sums
    /\ order' = reset(Self).order
    /\ counts' = reset(Self).counts
    /\ call' = [op |-> "reset", metrics |-> <<>>, raised |-> "none", ret |-> EmptyMap]
    /\ nupdates' = nupdates
    /\ supplied' = Forgotten
    /\ twin' = [exists |-> TRUE, discarded |-> (sums # EmptyMap),
                sums |-> new.sums, order |-> new.order, counts |-> new.counts]

Update ==
    /\ call = NoCall
    /\ nupdates < MaxUpdates
    /\ \E metrics \in Metrics :
         LET r == update(Self, metrics)
             w == update(Twin, metrics)
         IN  /\ sums' = r.sums
             /\ order' = r.order
             /\ counts' = r.counts
             /\ call' = [op |-> "update", metrics |-> metrics, raised |-> r.raised,
                         ret |-> EmptyMap]
             /\ supplied' = Record(supplied, metrics, 1)
             /\ twin' = IF twin.exists
                        THEN [exists |-> TRUE, discarded |-> twin.discarded,
                              sums |-> w.sums, order |-> w.order, counts |-> w.counts]
                        ELSE twin
    /\ nupdates' = nupdates + 1

GetMetrics ==
    /\ call = NoCall
    /\ LET r == get_metrics(Self)
       IN  /\ sums' = r.sums
           /\ order' = r.order
           /\ counts' = r.counts
           /\ call' = [op |-> "get_metrics", metrics |-> <<>>, raised |-> r.raised,
                       ret |-> r.ret]
    /\ UNCHANGED <<nupdates, supplied, twin>>

\* the call returns (or its exception reaches the caller): calls are made one after
\* another, and the argument and the result of one are gone when the next is made
Return ==
    /\ call # NoCall
    /\ call' = NoCall
    /\ UNCHANGED <<sums, order, counts, nupdates, supplied, twin>>

Next == Reset \/ Update \/ GetMetrics \/ Return

Spec == Init /\ [][Next]_vars

\* ------------------------------------------------------------- claims
\* what a call was given, read from the argument alone
IsArray(v) == v.kind = "tensor"
IsMultiElement(v) == IsArray(v) /\ Len(v.elems) > 1
HasNaNEntry(v) == IsArray(v) /\ \E i \in 1..Len(v.elems) : v.elems[i] = NaN
IsSkipped(v) == IsMultiElement(v) \/ HasNaNEntry(v)

Present(f, k) == k \in DOMAIN f

\* sums[k] and counts[k] are after the step what they were before it (absent if absent)
SameAt(k) ==
    /\ Present(sums', k) <=> Present(sums, k)
    /\ Present(sums, k) => sums'[k] = sums[k]
    /\ Present(counts', k) <=> Present(counts, k)
    /\ Present(counts, k) => counts'[k] = counts[k]

KeysOf(metrics) == {metrics[i].k : i \in 1..Len(metrics)}

\* C1: after updates with scalar, non-NaN numbers only, get_metrics()[k] is the sum of
\* the values supplied for k divided by the number of times k was supplied.
C1_Mean ==
    (call.op = "get_metrics" /\ supplied.ok) =>
        /\ call.raised = "none"
        /\ \A k \in DOMAIN supplied.n :
             /\ Present(call.ret, k)
             /\ ~call.ret[k].nan
             /\ call.ret[k].den > 0
             /\ call.ret[k].num * supplied.n[k] = supplied.total[k] * call.ret[k].den

\* update({"loss": 2.0}); update({"loss": 4.0}); get_metrics() gave {"loss": 3.0}
C1_Witness ==
    /\ call.op = "get_metrics"
    /\ supplied.ok
    /\ DOMAIN supplied.n = {"loss"}
    /\ supplied.n["loss"] = 2
    /\ supplied.total["loss"] = 6
    /\ call.ret = [k \in {"loss"} |-> [nan |-> FALSE, num |-> 3, den |-> 1]]

\* C2: an entry whose value is an array of more than one element leaves sums[k] and
\* counts[k] as they were before the call (absent if they were absent).
C2_MultiElementSkipped ==
    [][call'.op = "update" =>
         \A i \in 1..Len(call'.metrics) :
            IsMultiElement(call'.metrics[i].v) => SameAt(call'.metrics[i].k)]_vars

\* an update gave a three-element array for a key that had been accumulated before
C2_Witness ==
    /\ call.op = "update"
    /\ \E i \in 1..Len(call.metrics) :
         /\ IsMultiElement(call.metrics[i].v)
         /\ Present(sums, call.metrics[i].k)
         /\ counts[call.metrics[i].k] = 1
    /\ nupdates = 2

\* C3: an entry whose value is an array containing NaN (a one-element array holding
\* NaN included) leaves sums[k] and counts[k] as they were before the call.
C3_NaNArraySkipped ==
    [][call'.op = "update" =>
         \A i \in 1..Len(call'.metrics) :
            HasNaNEntry(call'.metrics[i].v) => SameAt(call'.metrics[i].k)]_vars

\* an update gave a one-element array holding NaN for a key accumulated before
C3_Witness ==
    /\ call.op = "update"
    /\ \E i \in 1..Len(call.metrics) :
         /\ HasNaNEntry(call.metrics[i].v)
         /\ Len(call.metrics[i].v.elems) = 1
         /\ Present(sums, call.metrics[i].k)
         /\ Len(sums[call.metrics[i].k].elems) = 1
         /\ sums[call.metrics[i].k].elems # <<NaN>>
    /\ nupdates = 2

\* C4: a plain NaN passed to update is skipped: on a new tracker, after
\* update({"loss": NaN}), neither sums nor counts has the key "loss" and get_metrics()
\* is the empty mapping.
C4_PlainNaNSkipped ==
    (/\ call.op = "update"
     /\ call.metrics = <<Entry("loss", Float(NaN))>>
     /\ nupdates = 1
     /\ ~twin.exists) =>
        /\ ~Present(sums, "loss")
        /\ ~Present(counts, "loss")
        /\ get_metrics(Self).ret = EmptyMap

\* C5: every key of sums is a key of counts with a count of at least 1, so that
\* get_metrics does not divide by zero and raises nothing.
C5_CountsCoverSums ==
    /\ \A k \in DOMAIN sums : Present(counts, k) /\ counts[k] >= 1
    /\ get_metrics(Self).raised = "none"
    /\ call.op = "get_metrics" => call.raised = "none"

\* C6: right after reset(), sums and counts are empty and get_metrics() returns the
\* empty mapping, whatever was accumulated before.
C6_ResetEmpties ==
    call.op = "reset" =>
        /\ sums = EmptyMap
        /\ counts = EmptyMap
        /\ get_metrics(Self).ret = EmptyMap
        /\ get_metrics(Self).raised = "none"

\* reset() has just discarded sums accumulated by the two update calls before it
C6_Witness ==
    /\ call.op = "reset"
    /\ twin.discarded
    /\ nupdates = 2

\* C7: when one update call mixes skipped entries with scalar numbers, nothing is
\* raised and every scalar number of the call is accumulated (one more count, the
\* number added to what sums held), wherever the skipped
\* entries stand in the mapping.
C7_SkipIsLocal ==
    [][(/\ call'.op = "update"
        /\ \E i \in 1..Len(call'.metrics) : IsSkipped(call'.metrics[i].v)
        /\ \E i \in 1..Len(call'.metrics) : IsScalarNumber(call'.metrics[i].v)
        /\ \A i \in 1..Len(call'.metrics) :
              IsSkipped(call'.metrics[i].v) \/ IsScalarNumber(call'.metrics[i].v)) =>
         /\ call'.raised = "none"
         /\ \A i \in 1..Len(call'.metrics) :
              LET k == call'.metrics[i].k
                  v == call'.metrics[i].v
              IN  IsScalarNumber(v) =>
                    /\ Present(sums', k) /\ Present(counts', k)
                    /\ counts'[k] = GetDefault(counts, k, 0) + 1
                    /\ sums'[k].elems =
                         AddElems(GetDefault(sums, k, Zero).elems, v.elems[1])]_vars

\* update({"acc": [1, 2, 3], "loss": 2.0}): the skipped entry comes first
C7_Witness ==
    /\ call.op = "update"
    /\ Len(call.metrics) = 2
    /\ IsMultiElement(call.metrics[1].v)
    /\ call.metrics[2] = Entry("loss", Float(Num(2)))
    /\ Present(sums, "loss")
    /\ get_metrics(Self).ret = [k \in {"loss"} |-> [nan |-> FALSE, num |-> 2, den |-> 1]]

\* C8: after reset() and any further updates, sums, counts and get_metrics() are those
\* of a newly constructed tracker given the same updates.
C8_ResetIsNew ==
    twin.exists =>
        /\ sums = twin.sums
        /\ counts = twin.counts
        /\ get_metrics(Self).ret = get_metrics(Twin).ret
        /\ get_metrics(Self).raised = get_metrics(Twin).raised

\* an update, a reset that discarded its sum, and an update of the same key
C8_Witness ==
    /\ twin.exists
    /\ twin.discarded
    /\ nupdates = 2
    /\ call.op = "update"
    /\ KeysOf(call.metrics) = {"loss"}
    /\ Present(counts, "loss")
    /\ counts["loss"] = 1

\* C9: update changes sums and counts only for the keys of its mapping, and every
\* entry that is not skipped increases the count of its key by exactly one.
C9_FrameAndCount ==
    [][call'.op = "update" =>
         /\ \A j \in Keys \ KeysOf(call'.metrics) : SameAt(j)
         /\ \A i \in 1..Len(call'.metrics) :
              ~IsSkipped(call'.metrics[i].v) =>
                 /\ Present(counts', call'.metrics[i].k)
                 /\ counts'[call'.metrics[i].k] =
                       GetDefault(counts, call'.metrics[i].k, 0) + 1]_vars

\* C10: get_metrics() leaves sums and counts as they are, the keys of the mapping it
\* returns are the keys of sums, and a second call right after returns the same mapping.
C10_Snapshot ==
    [][call'.op = "get_metrics" =>
         /\ sums' = sums
         /\ counts' = counts
         /\ DOMAIN call'.ret = DOMAIN sums
         /\ get_metrics([sums |-> sums', order |-> order', counts |-> counts']).ret = call'.ret]_vars

====
